---- MODULE Spec2Model ----
(***************************************************************************)
(* A model of scripts/check_invisible_chars.py: the character classifier,  *)
(* the line scanner, the unified-diff parser, the source adapters and the  *)
(* orchestrator (main).                                                    *)
(*                                                                         *)
(* Text is a sequence of characters; a character is a one-element name:    *)
(* printable ASCII characters stand for themselves ("a", "+", "\\"), the   *)
(* others carry a mnemonic ("LF", "FF", "ZWSP", ...) and Ord gives the     *)
(* code point.  None is <<>> and a present value x is <<x>>.               *)
(***************************************************************************)
EXTENDS Integers, Sequences, FiniteSets, TLC

VARIABLES
    \* _parse_diff_added_lines: the input, the loop position and the locals
    diff_text, idx, current_path, new_line, rows, ppc,
    \* _scan_text: the inputs and the returned list
    text, start_line, scan_result, spc,
    \* main: the parsed arguments, the position in main, the findings list,
    \* and what the process leaves: exit status, stdout, stderr
    args, pc, findings, exit_code, out, report, errout,
    \* history: the adapters main has called with what each returned, the
    \* git queries issued with their status, each git diff output with the
    \* paths it had path-scanned, and what the event adapter met
    ran, queries, diff_log, ev,
    \* _github_pr_commits_messages: its locals next_url and commits, where it
    \* stands, and (history) the URLs it has requested
    next_url, pr_commits, requested, fpc

parserVars == <<diff_text, idx, current_path, new_line, rows, ppc>>
scanVars == <<text, start_line, scan_result, spc>>
mainVars == <<args, pc, findings, exit_code, out, report, errout,
              ran, queries, diff_log, ev>>
fetchVars == <<next_url, pr_commits, requested, fpc>>
vars == <<parserVars, scanVars, mainVars, fetchVars>>

None == <<>>
Some(x) == <<x>>

(***************************************************************************)
(* Bounds of the model.                                                    *)
(***************************************************************************)
MaxDiffLines == 3
MaxTextLen == 3

(***************************************************************************)
(* Sequence helpers.                                                       *)
(***************************************************************************)
RECURSIVE SeqsUpTo(_, _)
SeqsUpTo(S, n) ==
    IF n = 0 THEN {<<>>}
    ELSE LET shorter == SeqsUpTo(S, n - 1)
         IN  shorter \cup {Append(s, x) : s \in {t \in shorter : Len(t) = n - 1}, x \in S}

Drop(s, n) == SubSeq(s, n + 1, Len(s))

\* str.startswith
StartsWith(s, prefix) ==
    /\ Len(s) >= Len(prefix)
    /\ SubSeq(s, 1, Len(prefix)) = prefix

(***************************************************************************)
(* Regular-expression matching by position sets: each operator takes the   *)
(* set P of positions (1-based index of the next unread character) at      *)
(* which a match of the pattern so far can end, and returns the positions  *)
(* after one more pattern element.                                         *)
(***************************************************************************)
ReLit(s, P, lit) ==
    {p + Len(lit) : p \in {q \in P : q + Len(lit) - 1 <= Len(s)
                                      /\ SubSeq(s, q, q + Len(lit) - 1) = lit}}

\* one or more characters of the class C
RePlus(s, P, C) ==
    {e \in 2..(Len(s) + 1) :
        \E p \in P : p < e /\ \A k \in p..(e - 1) : s[k] \in C}

\* an optional element: Q are the positions after the element
ReOpt(P, Q) == P \cup Q

Max(S) == CHOOSE x \in S : \A y \in S : y <= x

Digits == {"0", "1", "2", "3", "4", "5", "6", "7", "8", "9"}

DigitVal(c) ==
    CASE c = "0" -> 0 [] c = "1" -> 1 [] c = "2" -> 2 [] c = "3" -> 3
      [] c = "4" -> 4 [] c = "5" -> 5 [] c = "6" -> 6 [] c = "7" -> 7
      [] c = "8" -> 8 [] c = "9" -> 9

RECURSIVE DecimalValue(_)
DecimalValue(s) ==
    IF s = <<>> THEN 0
    ELSE 10 * DecimalValue(SubSeq(s, 1, Len(s) - 1)) + DigitVal(s[Len(s)])

\* int(s): the value of a decimal literal, ValueError for anything else
PyInt(s) ==
    IF s # <<>> /\ \A k \in 1..Len(s) : s[k] \in Digits
    THEN [err |-> FALSE, val |-> DecimalValue(s)]
    ELSE [err |-> TRUE, val |-> 0]

(***************************************************************************)
(* _DIFF_HEADER_RE = r"^diff --git (?P<old>.+?) (?P<new>.+)$"              *)
(***************************************************************************)
DiffGitPrefix == <<"d", "i", "f", "f", " ", "-", "-", "g", "i", "t", " ">>

\* the positions of the space that separates <old> from <new>
DiffHeaderSplits(raw) ==
    {p \in (Len(DiffGitPrefix) + 2)..(Len(raw) - 1) :
        StartsWith(raw, DiffGitPrefix) /\ raw[p] = " "}

_DIFF_HEADER_RE_match(raw) == DiffHeaderSplits(raw) # {}

\* m.group("new"): <old> is lazy, so it ends at the first possible space
DiffHeaderNew(raw) ==
    LET p == CHOOSE q \in DiffHeaderSplits(raw) :
                 \A r \in DiffHeaderSplits(raw) : q <= r
    IN  Drop(raw, p)

(***************************************************************************)
(* _HUNK_RE as the source writes it: a raw string whose backslashes are    *)
(* doubled, r"^@@ -\\d+(?:,\\d+)? \\+(?P<start>\\d+)(?:,(?P<count>\\d+))?  *)
(* @@".  In a raw string "\\d+" is the regular expression "a backslash,    *)
(* then one or more letters d", and "\\+" is "one or more backslashes".    *)
(***************************************************************************)
Backslash == <<"\\">>

\* the element \\d+ from the positions P
HunkReNum(raw, P) == RePlus(raw, ReLit(raw, P, Backslash), {"d"})

\* the positions after "^@@ -\\d+(?:,\\d+)? \\+", where <start> begins
HunkReStartBegins(raw) ==
    LET p1 == HunkReNum(raw, ReLit(raw, {1}, <<"@", "@", " ", "-">>))
        p2 == ReOpt(p1, HunkReNum(raw, ReLit(raw, p1, <<",">>)))
        p3 == ReLit(raw, p2, <<" ">>)
    IN  RePlus(raw, p3, {"\\"})

\* whether "(?:,(?P<count>\\d+))? @@" matches from position e
HunkReTail(raw, e) ==
    LET q == ReOpt({e}, HunkReNum(raw, ReLit(raw, {e}, <<",">>)))
    IN  ReLit(raw, q, <<" ", "@", "@">>) # {}

\* the (begin, end) spans <start> can take in a match
HunkReStartSpans(raw) ==
    {<<b, e>> \in (1..(Len(raw) + 1)) \X (1..(Len(raw) + 1)) :
        /\ b \in HunkReStartBegins(raw)
        /\ e \in HunkReNum(raw, {b})
        /\ HunkReTail(raw, e)}

_HUNK_RE_match(raw) == HunkReStartSpans(raw) # {}

\* m.group("start"): the quantifiers are greedy
HunkReStart(raw) ==
    LET b == Max({sp[1] : sp \in HunkReStartSpans(raw)})
        e == Max({sp[2] : sp \in {t \in HunkReStartSpans(raw) : t[1] = b}})
    IN  SubSeq(raw, b, e - 1)

(***************************************************************************)
(* shlex.split(raw): POSIX rules, split on whitespace only.  state is      *)
(* "ws" (between tokens), "a" (in a token), "sq" / "dq" (inside quotes) or *)
(* "esc" (after a backslash; back is the state to return to).  The result  *)
(* is [err, val]: err for the ValueError of an unclosed quotation or a     *)
(* trailing backslash.                                                     *)
(***************************************************************************)
ShlexWhitespace == {" ", "TAB", "CR", "LF"}

RECURSIVE ShlexRun(_, _, _, _, _, _, _)
ShlexRun(s, i, state, back, tok, quoted, acc) ==
    LET emit == IF tok # <<>> \/ quoted THEN Append(acc, tok) ELSE acc
    IN
    IF i > Len(s)
    THEN IF state \in {"sq", "dq", "esc"}
         THEN [err |-> TRUE, val |-> <<>>]
         ELSE [err |-> FALSE, val |-> emit]
    ELSE
    LET c == s[i] IN
    CASE state \in {"ws", "a"} /\ c \in ShlexWhitespace ->
            ShlexRun(s, i + 1, "ws", "a", <<>>, FALSE, emit)
      [] state \in {"ws", "a"} /\ c = "\\" ->
            ShlexRun(s, i + 1, "esc", "a", tok, quoted, acc)
      [] state \in {"ws", "a"} /\ c = "'" ->
            ShlexRun(s, i + 1, "sq", "a", tok, TRUE, acc)
      [] state \in {"ws", "a"} /\ c = "\"" ->
            ShlexRun(s, i + 1, "dq", "a", tok, TRUE, acc)
      [] state \in {"ws", "a"} /\ c \notin (ShlexWhitespace \cup {"\\", "'", "\""}) ->
            ShlexRun(s, i + 1, "a", "a", Append(tok, c), quoted, acc)
      [] state = "sq" /\ c = "'" ->
            ShlexRun(s, i + 1, "a", "a", tok, quoted, acc)
      [] state = "sq" /\ c # "'" ->
            ShlexRun(s, i + 1, "sq", "a", Append(tok, c), quoted, acc)
      [] state = "dq" /\ c = "\"" ->
            ShlexRun(s, i + 1, "a", "a", tok, quoted, acc)
      [] state = "dq" /\ c = "\\" ->
            ShlexRun(s, i + 1, "esc", "dq", tok, quoted, acc)
      [] state = "dq" /\ c \notin {"\"", "\\"} ->
            ShlexRun(s, i + 1, "dq", "a", Append(tok, c), quoted, acc)
      [] state = "esc" /\ back = "dq" /\ c \notin {"\\", "\""} ->
            ShlexRun(s, i + 1, "dq", "a", tok \o <<"\\", c>>, quoted, acc)
      [] state = "esc" /\ ~(back = "dq" /\ c \notin {"\\", "\""}) ->
            ShlexRun(s, i + 1, back, "a", Append(tok, c), quoted, acc)

ShlexSplit(raw) == ShlexRun(raw, 1, "ws", "a", <<>>, FALSE, <<>>)

(***************************************************************************)
(* _parse_diff_added_lines.  The locals are the record                     *)
(* [current_path, new_line, rows, exc]; exc names the exception that ended *)
(* the call ("" while none has been raised).  A row is the tuple appended  *)
(* by the source, (current_path, new_line, raw[1:]), with its first two    *)
(* fields as the optional values they are in the source.                   *)
(***************************************************************************)
ParserStart == [current_path |-> None, new_line |-> None, rows |-> <<>>, exc |-> ""]

\* if m: (the diff header branch)
DiffHeaderLine(st, raw) ==
    LET parts == ShlexSplit(raw)
    IN  IF parts.err
        THEN [st EXCEPT !.exc = "ValueError"]
        ELSE [st EXCEPT !.current_path =
                            Some(IF Len(parts.val) >= 4 THEN parts.val[4]
                                                       ELSE DiffHeaderNew(raw)),
                        !.new_line = None]

\* if m: new_line = int(m.group("start"))
HunkHeaderLine(st, raw) ==
    LET n == PyInt(HunkReStart(raw))
    IN  IF n.err THEN [st EXCEPT !.exc = "ValueError"]
                 ELSE [st EXCEPT !.new_line = Some(n.val)]

\* new_line += 1
AdvanceNewLine(st) ==
    IF st.new_line = None THEN [st EXCEPT !.exc = "TypeError"]
                          ELSE [st EXCEPT !.new_line = Some(st.new_line[1] + 1)]

\* if current_path is None or new_line is None: continue
CursorInactive_never(st) == FALSE

CursorInactive(st) == st.current_path = None \/ st.new_line = None

NoNewlineMarker ==
    <<"\\", " ", "N", "o", " ", "n", "e", "w", "l", "i", "n", "e", " ", "a", "t",
      " ", "e", "n", "d", " ", "o", "f", " ", "f", "i", "l", "e">>

\* one iteration of: for raw in diff_text.splitlines()
ParseLine(st, raw) ==
    IF _DIFF_HEADER_RE_match(raw) THEN DiffHeaderLine(st, raw)
    ELSE IF _HUNK_RE_match(raw) THEN HunkHeaderLine(st, raw)
    ELSE IF CursorInactive(st) THEN st
    ELSE IF StartsWith(raw, <<"+", "+", "+", " ">>) \/ StartsWith(raw, <<"-", "-", "-", " ">>)
         THEN st
    ELSE IF StartsWith(raw, NoNewlineMarker) THEN st
    ELSE IF StartsWith(raw, <<"+">>)
         THEN AdvanceNewLine([st EXCEPT !.rows =
                  Append(st.rows, <<st.current_path, st.new_line, Drop(raw, 1)>>)])
    ELSE IF StartsWith(raw, <<"-">>) THEN st
    ELSE IF StartsWith(raw, <<" ">>) THEN AdvanceNewLine(st)
    ELSE st

\* the whole call on a list of lines: the rows, or the exception raised
RECURSIVE ParseFrom(_, _, _)
ParseFrom(st, lines, i) ==
    IF st.exc # "" \/ i > Len(lines) THEN st
    ELSE ParseFrom(ParseLine(st, lines[i]), lines, i + 1)

_parse_diff_added_lines(lines) == ParseFrom(ParserStart, lines, 1)

(***************************************************************************)
(* The lines the parser is run on.                                         *)
(***************************************************************************)
L_DiffA == DiffGitPrefix \o <<"a", " ", "a">>
L_DiffRename == DiffGitPrefix \o <<"a", "'", "s", " ", "b">>
L_Hunk == <<"@", "@", " ", "-", "1", "0", " ", "+", "4", "0", ",", "5", " ", "@", "@">>
L_HunkLiteral == <<"@", "@", " ", "-", "\\", "d", " ", "\\", "\\", "d", " ", "@", "@">>
L_Added == <<"+", "x">>
L_Removed == <<"-", "x">>
L_Context == <<" ", "x">>
L_Empty == <<>>
L_Summary == <<"+", "+", "+", " ", "a">>

DiffLines ==
    {L_DiffA, L_DiffRename, L_Hunk, L_HunkLiteral, L_Added, L_Removed,
     L_Context, L_Empty, L_Summary, NoNewlineMarker}

(***************************************************************************)
(* The parser, one line per step.                                          *)
(***************************************************************************)
ScanIdle ==
    /\ text = <<>>
    /\ start_line = 1
    /\ scan_result = <<>>
    /\ spc = "idle"

MainIdle ==
    /\ args = [mode |-> "default", commit_range |-> FALSE, github_event |-> FALSE,
               event_path |-> None]
    /\ pc = "idle"
    /\ findings = <<>>
    /\ exit_code = None
    /\ out = ""
    /\ report = <<>>
    /\ errout = <<>>
    /\ ran = <<>>
    /\ queries = <<>>
    /\ diff_log = <<>>
    /\ ev = None

FetchIdle ==
    /\ next_url = None
    /\ pr_commits = <<>>
    /\ requested = {}
    /\ fpc = "idle"

ParserInit ==
    /\ diff_text \in SeqsUpTo(DiffLines, MaxDiffLines)
    /\ idx = 1
    /\ current_path = ParserStart.current_path
    /\ new_line = ParserStart.new_line
    /\ rows = ParserStart.rows
    /\ ppc = "loop"
    /\ ScanIdle
    /\ MainIdle
    /\ FetchIdle

ParserLocals == [current_path |-> current_path, new_line |-> new_line,
                 rows |-> rows, exc |-> ""]

ParseNextLine ==
    /\ ppc = "loop"
    /\ idx <= Len(diff_text)
    /\ LET st == ParseLine(ParserLocals, diff_text[idx])
       IN  /\ current_path' = st.current_path
           /\ new_line' = st.new_line
           /\ rows' = st.rows
           /\ ppc' = IF st.exc # "" THEN st.exc ELSE "loop"
    /\ idx' = idx + 1
    /\ UNCHANGED <<diff_text, scanVars, mainVars, fetchVars>>

ParseReturn ==
    /\ ppc = "loop"
    /\ idx > Len(diff_text)
    /\ ppc' = "returned"
    /\ UNCHANGED <<diff_text, idx, current_path, new_line, rows, scanVars, mainVars, fetchVars>>

ParserNext == ParseNextLine \/ ParseReturn

SpecParser == ParserInit /\ [][ParserNext]_vars

(***************************************************************************)
(* What the claims say of a unified diff, read off the input alone.        *)
(***************************************************************************)
\* a 'diff --git' header line
IsDiffGitLine(raw) == StartsWith(raw, DiffGitPrefix)

\* the new-side path of a header whose paths are unquoted and free of spaces
RECURSIVE AfterLastSpace(_)
AfterLastSpace(raw) ==
    IF \E k \in 1..Len(raw) : raw[k] = " "
    THEN AfterLastSpace(Drop(raw, CHOOSE k \in 1..Len(raw) : raw[k] = " "))
    ELSE raw

\* the spans of c in a hunk header '@@ -a[,b] +c[,d] @@'
HunkHeaderStartSpans(raw) ==
    LET p1 == RePlus(raw, ReLit(raw, {1}, <<"@", "@", " ", "-">>), Digits)
        p2 == ReOpt(p1, RePlus(raw, ReLit(raw, p1, <<",">>), Digits))
        p3 == ReLit(raw, p2, <<" ", "+">>)
    IN  {<<b, e>> \in (1..(Len(raw) + 1)) \X (1..(Len(raw) + 1)) :
            /\ b \in p3
            /\ e \in RePlus(raw, {b}, Digits)
            /\ ReLit(raw, ReOpt({e}, RePlus(raw, ReLit(raw, {e}, <<",">>), Digits)),
                     <<" ", "@", "@">>) # {}}

IsHunkHeader(raw) == HunkHeaderStartSpans(raw) # {}

\* <new-start>
HunkHeaderNewStart(raw) ==
    LET b == Max({sp[1] : sp \in HunkHeaderStartSpans(raw)})
        e == Max({sp[2] : sp \in {t \in HunkHeaderStartSpans(raw) : t[1] = b}})
    IN  DecimalValue(SubSeq(raw, b, e - 1))

IsSummaryLine(raw) ==
    StartsWith(raw, <<"+", "+", "+", " ">>) \/ StartsWith(raw, <<"-", "-", "-", " ">>)

\* a line that is none of: diff header, hunk header, summary line, 'no
\* newline' marker, added line, removed line
IsOtherLine(raw) ==
    /\ ~IsDiffGitLine(raw)
    /\ ~IsHunkHeader(raw)
    /\ ~IsSummaryLine(raw)
    /\ ~StartsWith(raw, NoNewlineMarker)
    /\ ~StartsWith(raw, <<"+">>)
    /\ ~StartsWith(raw, <<"-">>)

\* The cursor the claims describe after the lines read so far: path and
\* num are optional, out the tuples emitted.  With othersAdvance only
\* context lines (leading space) advance num; otherwise every 'other' line.
ClaimStep(c, raw, othersAdvance) ==
    IF IsDiffGitLine(raw)
    THEN [c EXCEPT !.path = Some(AfterLastSpace(raw)), !.num = None]
    ELSE IF IsHunkHeader(raw)
    THEN IF c.path = None THEN c ELSE [c EXCEPT !.num = Some(HunkHeaderNewStart(raw))]
    ELSE IF c.path = None \/ c.num = None THEN c
    ELSE IF IsSummaryLine(raw) \/ StartsWith(raw, NoNewlineMarker) THEN c
    ELSE IF StartsWith(raw, <<"+">>)
    THEN [c EXCEPT !.out = Append(c.out, <<c.path, c.num, Drop(raw, 1)>>),
                   !.num = Some(c.num[1] + 1)]
    ELSE IF StartsWith(raw, <<"-">>) THEN c
    ELSE IF StartsWith(raw, <<" ">>) \/ othersAdvance
    THEN [c EXCEPT !.num = Some(c.num[1] + 1)]
    ELSE c

RECURSIVE ClaimCursor(_, _)
ClaimCursor(lines, othersAdvance) ==
    IF lines = <<>> THEN [path |-> None, num |-> None, out |-> <<>>]
    ELSE ClaimStep(ClaimCursor(SubSeq(lines, 1, Len(lines) - 1), othersAdvance),
                   lines[Len(lines)], othersAdvance)

\* the lines read so far
Consumed == SubSeq(diff_text, 1, idx - 1)

\* a diff header has been read and a hunk header after it
ClaimActive(lines) ==
    LET c == ClaimCursor(lines, FALSE) IN c.path # None /\ c.num # None

(***************************************************************************)
(* C1: when the parser returns, its rows are exactly one tuple per added   *)
(* line inside a hunk, in input order, with the new-side path of the last  *)
(* diff header, the text without its '+', and the hunk's <new-start> plus  *)
(* the number of added and context lines before it in the hunk.            *)
(***************************************************************************)
C1_RowsAreTheAddedLines ==
    ppc = "returned" => rows = ClaimCursor(diff_text, FALSE).out

(***************************************************************************)
(* C2: a step of the parser emits a tuple only if the lines read before    *)
(* it hold a 'diff --git' header and, after the last such header, a hunk   *)
(* header: nothing is emitted before the first diff header, before the     *)
(* first hunk header, or between a diff header and the next hunk header.   *)
(***************************************************************************)
C2_EmitOnlyWhenActive ==
    [][rows' # rows => ClaimActive(Consumed)]_vars

\* an added line was read between a diff header and any hunk header, and
\* nothing was emitted
C2_Witness ==
    /\ ppc = "loop"
    /\ idx = 3
    /\ diff_text[1] = L_DiffA
    /\ diff_text[2] = L_Added
    /\ current_path = Some(<<"a">>)
    /\ rows = <<>>

(***************************************************************************)
(* C9: while a diff header and a later hunk header have been read, every   *)
(* 'other' line (a context line, an empty line, a line starting with any   *)
(* other character) advances the next new-line number by exactly one and   *)
(* emits nothing.                                                          *)
(***************************************************************************)
C9_OtherLinesAdvance ==
    [][(/\ ppc = "loop"
        /\ idx <= Len(diff_text)
        /\ ClaimActive(Consumed)
        /\ IsOtherLine(diff_text[idx]))
       => (/\ new_line' = Some(ClaimCursor(Consumed, TRUE).num[1] + 1)
           /\ rows' = rows)]_vars

(***************************************************************************)
(* Characters and code points.                                             *)
(***************************************************************************)
AsciiPrintable ==
    <<" ", "!", "\"", "#", "$", "%", "&", "'", "(", ")", "*", "+", ",", "-", ".", "/",
      "0", "1", "2", "3", "4", "5", "6", "7", "8", "9", ":", ";", "<", "=", ">", "?",
      "@", "A", "B", "C", "D", "E", "F", "G", "H", "I", "J", "K", "L", "M", "N", "O",
      "P", "Q", "R", "S", "T", "U", "V", "W", "X", "Y", "Z", "[", "\\", "]", "^", "_",
      "GRAVE", "a", "b", "c", "d", "e", "f", "g", "h", "i", "j", "k", "l", "m", "n", "o",
      "p", "q", "r", "s", "t", "u", "v", "w", "x", "y", "z", "{", "|", "}", "~">>

\* ord(ch)
Ord(ch) ==
    CASE ch = "NUL" -> 0
      [] ch = "TAB" -> 9
      [] ch = "LF" -> 10
      [] ch = "VT" -> 11
      [] ch = "FF" -> 12
      [] ch = "CR" -> 13
      [] ch = "FS" -> 28
      [] ch = "GS" -> 29
      [] ch = "RS" -> 30
      [] ch = "NEL" -> 133
      [] ch = "NBSP" -> 160
      [] ch = "CGJ" -> 847
      [] ch = "ZWSP" -> 8203
      [] ch = "RLO" -> 8238
      [] ch = "LS" -> 8232
      [] ch = "PS" -> 8233
      [] ch = "VS16" -> 65039
      [] ch = "REPL" -> 65533
      [] ch = "BAD" -> 255
      [] OTHER -> 31 + (CHOOSE k \in 1..Len(AsciiPrintable) : AsciiPrintable[k] = ch)

ALLOWED_WHITESPACE == {" ", "TAB", "LF", "CR"}

\* str.isspace for one character: the code points with the White_Space
\* property or a bidirectional type of WS, B or S
IsSpace(cp) ==
    \/ cp \in 9..13
    \/ cp \in 28..32
    \/ cp \in {133, 160, 5760, 8232, 8233, 8239, 8287, 12288}
    \/ cp \in 8192..8202

\* unicodedata.category, for the categories the classifier asks about and
\* those of the separators; "L*" stands for every other category
Category(cp) ==
    IF cp \in 0..31 \/ cp \in 127..159 THEN "Cc"
    ELSE IF \/ cp \in {173, 1564, 1757, 1807, 6158, 65279}
            \/ cp \in 1536..1541
            \/ cp \in 8203..8207
            \/ cp \in 8234..8238
            \/ cp \in 8288..8292
            \/ cp \in 8294..8303
            \/ cp \in 65529..65531
            \/ cp \in 917505..917631
         THEN "Cf"
    ELSE IF cp \in 55296..57343 THEN "Cs"
    ELSE IF cp \in 57344..63743 \/ cp \in 983040..1048573 \/ cp \in 1048576..1114109
         THEN "Co"
    ELSE IF cp = 8232 THEN "Zl"
    ELSE IF cp = 8233 THEN "Zp"
    ELSE IF cp \in {32, 160, 5760, 8239, 8287, 12288} \/ cp \in 8192..8202 THEN "Zs"
    ELSE "L*"

\* VARIATION_SELECTOR_RANGES: U+FE00..U+FE0F, U+E0100..U+E01EF
_is_in_variation_selector_range(cp) == cp \in 65024..65039 \/ cp \in 917760..917999

\* U+FDD0..U+FDEF, or the low 16 bits are 0xFFFE or 0xFFFF
_is_noncharacter(cp) == cp \in 64976..65007 \/ (cp % 65536) \in {65534, 65535}

_is_forbidden_char(ch) ==
    IF ch \in ALLOWED_WHITESPACE THEN FALSE
    ELSE \/ IsSpace(Ord(ch))
         \/ _is_in_variation_selector_range(Ord(ch))
         \/ Category(Ord(ch)) \in {"Cc", "Cf"}
         \/ Category(Ord(ch)) \in {"Cs", "Co"}
         \/ _is_noncharacter(Ord(ch))
         \/ Ord(ch) \in {847}

(***************************************************************************)
(* str.splitlines: a line ends at LF, CR, CR LF, VT, FF, FS, GS, RS, NEL,  *)
(* LS or PS; the terminators are dropped, and a terminator at the very end *)
(* opens no further line.                                                  *)
(***************************************************************************)
LineBreaks == {"LF", "CR", "VT", "FF", "FS", "GS", "RS", "NEL", "LS", "PS"}

RECURSIVE SplitFrom(_, _, _, _)
SplitFrom(s, i, cur, acc) ==
    IF i > Len(s) THEN (IF cur = <<>> THEN acc ELSE Append(acc, cur))
    ELSE IF s[i] = "CR" /\ i < Len(s) /\ s[i + 1] = "LF"
         THEN SplitFrom(s, i + 2, <<>>, Append(acc, cur))
    ELSE IF s[i] \in LineBreaks THEN SplitFrom(s, i + 1, <<>>, Append(acc, cur))
    ELSE SplitFrom(s, i + 1, Append(cur, s[i]), acc)

SplitLines(s) == SplitFrom(s, 1, <<>>, <<>>)

(***************************************************************************)
(* Finding and _scan_text.  name and rendered_line, which only display the *)
(* character and its line, are left out of the record.                     *)
(***************************************************************************)
Finding(path, line, col, ch) ==
    [path |-> path, line |-> line, col |-> col,
     codepoint |-> Ord(ch), category |-> Category(Ord(ch))]

\* for j, ch in enumerate(line, start=1)
RECURSIVE ScanLineFrom(_, _, _, _)
ScanLineFrom(path, line, i, j) ==
    IF j > Len(line) THEN <<>>
    ELSE (IF _is_forbidden_char(line[j]) THEN <<Finding(path, i, j, line[j])>> ELSE <<>>)
         \o ScanLineFrom(path, line, i, j + 1)

\* for i, line in enumerate(text.splitlines(), start=start_line)
RECURSIVE ScanLinesFrom(_, _, _, _)
ScanLinesFrom(path, lines, start, n) ==
    IF n > Len(lines) THEN <<>>
    ELSE ScanLineFrom(path, lines[n], start + n - 1, 1)
         \o ScanLinesFrom(path, lines, start, n + 1)

_scan_text(path, txt, start) == ScanLinesFrom(path, SplitLines(txt), start, 1)

(***************************************************************************)
(* The line scanner applied to a text and a starting line.                 *)
(***************************************************************************)
MaxStartLine == 2

ScanChars == {"a", " ", "LF", "CR", "FF", "LS", "ZWSP", "NBSP"}

ScanPath == <<"p">>

ParserIdle ==
    /\ diff_text = <<>>
    /\ idx = 1
    /\ current_path = None
    /\ new_line = None
    /\ rows = <<>>
    /\ ppc = "idle"

ScanInit ==
    /\ text \in SeqsUpTo(ScanChars, MaxTextLen)
    /\ start_line \in 1..MaxStartLine
    /\ scan_result = <<>>
    /\ spc = "call"
    /\ ParserIdle
    /\ MainIdle
    /\ FetchIdle

ScanTextCall ==
    /\ spc = "call"
    /\ scan_result' = _scan_text(ScanPath, text, start_line)
    /\ spc' = "returned"
    /\ UNCHANGED <<text, start_line, parserVars, mainVars, fetchVars>>

ScanNext == ScanTextCall

SpecScan == ScanInit /\ [][ScanNext]_vars

(***************************************************************************)
(* What C10 says of a text, read off the text alone: the logical lines end *)
(* at the line terminators, CR LF counting once.                           *)
(***************************************************************************)
\* position k holds a terminator that ends a logical line
EndsLine(txt, k) ==
    /\ txt[k] \in LineBreaks
    /\ ~(txt[k] = "CR" /\ k < Len(txt) /\ txt[k + 1] = "LF")

\* the number of logical lines that end before position k
LinesEndedBefore(txt, k) == Cardinality({m \in 1..(k - 1) : EndsLine(txt, m)})

\* the 1-based index of position k within its logical line
ColumnOf(txt, k) ==
    LET ends == {m \in 1..(k - 1) : EndsLine(txt, m)}
    IN  IF ends = {} THEN k ELSE k - Max(ends)

RECURSIVE ClaimFindingsFrom(_, _, _, _)
ClaimFindingsFrom(path, txt, start, k) ==
    IF k > Len(txt) THEN <<>>
    ELSE (IF _is_forbidden_char(txt[k])
          THEN <<Finding(path, start + LinesEndedBefore(txt, k), ColumnOf(txt, k), txt[k])>>
          ELSE <<>>)
         \o ClaimFindingsFrom(path, txt, start, k + 1)

(***************************************************************************)
(* C10: _scan_text returns, in text order, exactly one Finding for every   *)
(* occurrence of a forbidden character, line terminators that are          *)
(* forbidden (FF, VT, NEL, LS, PS) included, at starting_line plus the     *)
(* number of logical lines ended before it and at its 1-based column, and  *)
(* nothing for allowed characters.                                         *)
(***************************************************************************)
C10_EveryForbiddenCharReported ==
    spc = "returned" => scan_result = ClaimFindingsFrom(ScanPath, text, start_line, 1)

(***************************************************************************)
(* File adapters.  A listed file is [rel, is_file, data]: the line of the  *)
(* listing, whether the path is a regular file, and its bytes (None when   *)
(* read_bytes raises OSError).  The bytes are written as the characters    *)
(* they encode, "BAD" standing for a byte that is not valid UTF-8.         *)
(***************************************************************************)
\* str.strip
RECURSIVE Strip(_)
Strip(s) ==
    IF s # <<>> /\ IsSpace(Ord(s[1])) THEN Strip(Drop(s, 1))
    ELSE IF s # <<>> /\ IsSpace(Ord(s[Len(s)])) THEN Strip(SubSeq(s, 1, Len(s) - 1))
    ELSE s

\* the number of bytes of the UTF-8 encoding of a code point
Utf8Len(cp) == IF cp < 128 THEN 1 ELSE IF cp < 2048 THEN 2 ELSE IF cp < 65536 THEN 3 ELSE 4

ByteLen(ch) == IF ch = "BAD" THEN 1 ELSE Utf8Len(Ord(ch))

\* a byte b with b < 9 or 13 < b < 32 or b == 127
IsNonTextByte(ch) ==
    ch # "BAD" /\ (Ord(ch) < 9 \/ (13 < Ord(ch) /\ Ord(ch) < 32) \/ Ord(ch) = 127)

\* len(sample)
RECURSIVE TotalBytes(_)
TotalBytes(data) == IF data = <<>> THEN 0 ELSE ByteLen(data[1]) + TotalBytes(Drop(data, 1))

\* nontext
RECURSIVE CountNonText(_)
CountNonText(data) ==
    IF data = <<>> THEN 0
    ELSE (IF IsNonTextByte(data[1]) THEN 1 ELSE 0) + CountNonText(Drop(data, 1))

\* _is_probably_binary, for data that fits the 4096-byte sample
_is_probably_binary(data) ==
    IF \E k \in 1..Len(data) : data[k] = "NUL" THEN TRUE
    ELSE IF data = <<>> THEN FALSE
    ELSE 10 * CountNonText(data) > 3 * TotalBytes(data)

\* data.decode("utf-8", errors="replace")
Decode(data) == [k \in 1..Len(data) |-> IF data[k] = "BAD" THEN "REPL" ELSE data[k]]

PathLabel(rel) == <<"p", "a", "t", "h", "[">> \o rel \o <<"]">>

_scan_path_string(rel) == _scan_text(PathLabel(rel), rel, 1)

_scan_file(f) ==
    _scan_path_string(f.rel)
    \o (IF f.data = None THEN <<>>
        ELSE IF _is_probably_binary(f.data[1]) THEN <<>>
        ELSE _scan_text(f.rel, Decode(f.data[1]), 1))

RECURSIVE ScanFiles(_)
ScanFiles(files) ==
    IF files = <<>> THEN <<>> ELSE _scan_file(files[1]) \o ScanFiles(Drop(files, 1))

\* on the outcome [ok, listing] of git ls-files
_collect_untracked(ok, listing) ==
    IF ~ok THEN <<>>
    ELSE SelectSeq([k \in 1..Len(listing) |->
                       [listing[k] EXCEPT !.rel = Strip(listing[k].rel)]],
                   LAMBDA f : f.rel # <<>> /\ f.is_file)

_collect_tracked_files(ok, listing) ==
    IF ~ok THEN <<>>
    ELSE SelectSeq([k \in 1..Len(listing) |->
                       [listing[k] EXCEPT !.rel = Strip(listing[k].rel)]],
                   LAMBDA f : f.rel # <<>> /\ f.is_file)

(***************************************************************************)
(* _scan_git_diff on the outcome of git diff.  scans lists the paths given *)
(* to _scan_path_string, in call order.                                    *)
(***************************************************************************)
\* the body of: for path, line_no, added_line in _parse_diff_added_lines(...)
RECURSIVE ScanRows(_, _, _)
ScanRows(rws, i, acc) ==
    IF i > Len(rws) THEN acc
    ELSE LET path == rws[i][1][1]
             line_no == rws[i][2][1]
             added_line == rws[i][3]
             first == path \notin acc.scanned_paths
             found == _scan_text(path, added_line, line_no)
         IN  ScanRows(rws, i + 1,
                 [scanned_paths |-> acc.scanned_paths \cup {path},
                  scans |-> IF first THEN Append(acc.scans, path) ELSE acc.scans,
                  findings |-> acc.findings
                      \o (IF first THEN _scan_path_string(path) ELSE <<>>)
                      \o [k \in 1..Len(found) |-> [found[k] EXCEPT !.line = line_no]]])

_scan_git_diff(ok, stdout) ==
    IF ~ok THEN [raised |-> "RuntimeError", findings |-> <<>>, scans |-> <<>>]
    ELSE LET parsed == _parse_diff_added_lines(stdout)
         IN  IF parsed.exc # ""
             THEN [raised |-> parsed.exc, findings |-> <<>>, scans |-> <<>>]
             ELSE LET r == ScanRows(parsed.rows, 1,
                               [scanned_paths |-> {}, scans |-> <<>>, findings |-> <<>>])
                  IN  [raised |-> "", findings |-> r.findings, scans |-> r.scans]

(***************************************************************************)
(* Commit messages.  A git show outcome is [ok, stdout].                   *)
(***************************************************************************)
CommitLabel(sha) == <<"c", "o", "m", "m", "i", "t", "[">> \o sha \o <<"]">>

_scan_commit_message(sha, show) ==
    IF ~show.ok THEN <<>> ELSE _scan_text(CommitLabel(sha), show.stdout, 1)

RECURSIVE ScanCommitMessages(_, _)
ScanCommitMessages(shas, shows) ==
    IF shas = <<>> THEN <<>>
    ELSE _scan_commit_message(shas[1], shows[1])
         \o ScanCommitMessages(Drop(shas, 1), Drop(shows, 1))

\* _git_rev_list: None on a non-zero status
_git_rev_list(rl) ==
    IF ~rl.ok THEN None
    ELSE Some(SelectSeq([k \in 1..Len(rl.stdout) |-> Strip(rl.stdout[k])],
                        LAMBDA line : line # <<>>))

(***************************************************************************)
(* _github_pr_commits_messages.  pages are the answers of the remote, in   *)
(* request order: [kind |-> "error"] for a transport error, a timeout or   *)
(* unparsable JSON, [kind |-> "notlist"] for JSON that is no array, and    *)
(* [kind |-> "list", items, next] for an array and whether a next link     *)
(* came with it.  An item is [sha, message], each None when it is missing  *)
(* or not a string.                                                        *)
(***************************************************************************)
\* urllib.request.Request(url) raises ValueError unless url starts with a
\* scheme: one or more characters other than "/" and ":", then ":"
HasUrlScheme(url) ==
    \E k \in 2..Len(url) :
        url[k] = ":" /\ \A j \in 1..(k - 1) : url[j] \notin {"/", ":"}

RECURSIVE PagePairs(_)
PagePairs(items) ==
    IF items = <<>> THEN <<>>
    ELSE (IF items[1].sha # None /\ items[1].message # None
          THEN << <<items[1].sha[1], items[1].message[1]>> >>
          ELSE <<>>)
         \o PagePairs(Drop(items, 1))

\* while next_url: ..., on answers that end the loop within pages
RECURSIVE FetchPages(_, _, _)
FetchPages(pages, i, commits) ==
    IF i > Len(pages) THEN commits
    ELSE IF pages[i].kind # "list" THEN commits
    ELSE IF pages[i].next
         THEN FetchPages(pages, i + 1, commits \o PagePairs(pages[i].items))
         ELSE commits \o PagePairs(pages[i].items)

_github_pr_commits_messages(commits_url, pages) ==
    IF ~HasUrlScheme(commits_url) THEN [raised |-> "ValueError", commits |-> <<>>]
    ELSE [raised |-> "", commits |-> FetchPages(pages, 1, <<>>)]

(***************************************************************************)
(* _scan_github_event.  e is what the adapter meets: file ("unreadable",   *)
(* "unparsable" or "json"), the parsed payload, the outcome of the local   *)
(* rev-list and of git show for each commit it lists, the token of the     *)
(* environment (None when unset or empty) and the remote's pages.          *)
(***************************************************************************)
EventLabel == <<"g", "i", "t", "h", "u", "b", "[", "e", "v", "e", "n", "t", "]">>
PrCommitsLabel == <<"p", "r", "[", "c", "o", "m", "m", "i", "t", "s", "]">>
PrTitleLabel == <<"p", "r", "[", "t", "i", "t", "l", "e", "]">>
PrBodyLabel == <<"p", "r", "[", "b", "o", "d", "y", "]">>

Synthetic(path, category) ==
    [path |-> path, line |-> 1, col |-> 1, codepoint |-> 0, category |-> category]

\* except (OSError, json.JSONDecodeError): return [Finding(... "ERR" ...)]
EventUnreadable_raising == [raised |-> "RuntimeError", findings |-> <<>>]

EventUnreadable == [raised |-> "", findings |-> <<Synthetic(EventLabel, "ERR")>>]

\* title / body: scanned when a non-empty string
ScanPrField(label, value) ==
    IF value # None /\ value[1] # <<>> THEN _scan_text(label, value[1], 1) ELSE <<>>

RECURSIVE ScanRemoteCommits(_)
ScanRemoteCommits(commits) ==
    IF commits = <<>> THEN <<>>
    ELSE _scan_text(CommitLabel(commits[1][1]), commits[1][2], 1)
         \o ScanRemoteCommits(Drop(commits, 1))

\* the local resolution: [scanned_commits, findings]
PrLocalCommits(pr, e) ==
    LET shas == IF pr.base_sha # None /\ pr.head_sha # None THEN _git_rev_list(e.revlist)
                                                            ELSE None
    IN  IF shas # None /\ shas[1] # <<>>
        THEN [scanned_commits |-> TRUE,
              findings |-> ScanCommitMessages(shas[1], e.shows)]
        ELSE [scanned_commits |-> FALSE, findings |-> <<>>]

\* the remote fallback: [raised, scanned_commits, findings]
PrRemoteCommits(pr, e) ==
    IF e.token # None /\ pr.commits_url # None /\ pr.commits_url[1] # <<>>
    THEN LET got == _github_pr_commits_messages(pr.commits_url[1], e.pages)
         IN  [raised |-> got.raised,
              scanned_commits |-> got.commits # <<>>,
              findings |-> ScanRemoteCommits(got.commits)]
    ELSE [raised |-> "", scanned_commits |-> FALSE, findings |-> <<>>]

ScanPullRequest(pr, e) ==
    LET head == ScanPrField(PrTitleLabel, pr.title) \o ScanPrField(PrBodyLabel, pr.body)
        local == PrLocalCommits(pr, e)
        remote == IF local.scanned_commits
                  THEN [raised |-> "", scanned_commits |-> TRUE, findings |-> <<>>]
                  ELSE PrRemoteCommits(pr, e)
    IN  IF remote.raised # "" THEN [raised |-> remote.raised, findings |-> <<>>]
        ELSE [raised |-> "",
              findings |-> head \o local.findings \o remote.findings
                  \o (IF remote.scanned_commits THEN <<>>
                      ELSE <<Synthetic(PrCommitsLabel, "WARN")>>)]

\* the push shape: each commit once, by id
RECURSIVE ScanPushCommits(_, _)
ScanPushCommits(commits, seen) ==
    IF commits = <<>> THEN <<>>
    ELSE LET c == commits[1]
         IN  IF c.id = None \/ c.message = None THEN ScanPushCommits(Drop(commits, 1), seen)
             ELSE IF c.id[1] \in seen THEN ScanPushCommits(Drop(commits, 1), seen)
             ELSE _scan_text(CommitLabel(c.id[1]), c.message[1], 1)
                  \o ScanPushCommits(Drop(commits, 1), seen \cup {c.id[1]})

_scan_github_event(e) ==
    IF e.file # "json" THEN EventUnreadable
    ELSE IF e.payload.kind = "pr" THEN ScanPullRequest(e.payload, e)
    ELSE IF e.payload.kind = "push"
         THEN [raised |-> "", findings |-> ScanPushCommits(e.payload.commits, {})]
    ELSE [raised |-> "", findings |-> <<>>]

(***************************************************************************)
(* What main can meet: the arguments and the outcomes of its queries.      *)
(***************************************************************************)
MaxCommits == 1

Modes == {"all", "base", "staged", "default"}

EventPath == <<"e">>

ArgSets ==
    [mode : Modes, commit_range : BOOLEAN, github_event : BOOLEAN,
     event_path : {None, Some(EventPath)}]

F_Clean == [rel |-> <<"a">>, is_file |-> TRUE, data |-> Some(<<"x", "LF">>)]
F_Dirty == [rel |-> <<"b", " ">>, is_file |-> TRUE, data |-> Some(<<"x", "ZWSP", "BAD">>)]
F_Binary == [rel |-> <<"c", "NBSP">>, is_file |-> TRUE, data |-> Some(<<"NUL", "ZWSP">>)]
F_Unreadable == [rel |-> <<"d">>, is_file |-> TRUE, data |-> None]
F_Directory == [rel |-> <<"e">>, is_file |-> FALSE, data |-> None]
F_BlankLine == [rel |-> <<" ">>, is_file |-> FALSE, data |-> None]

LsOutcomes ==
    {[ok |-> FALSE, listing |-> <<>>]}
    \cup {[ok |-> TRUE, listing |-> l] :
            l \in {<<F_Clean>>,
                   <<F_BlankLine, F_Dirty, F_Directory, F_Binary, F_Unreadable>>}}

L_AddedDirty == <<"+", "x", "ZWSP">>
L_DiffMove == DiffGitPrefix \o <<"a", " ", "b">>
L_RenameTo == <<"r", "e", "n", "a", "m", "e", " ", "t", "o", " ", "b">>

DiffOutcomes ==
    {[ok |-> FALSE, stdout |-> <<>>]}
    \cup {[ok |-> TRUE, stdout |-> d] :
            d \in {<<>>,
                   <<L_DiffA, L_Summary, L_Hunk, L_AddedDirty>>,
                   <<L_DiffMove, L_RenameTo>>,
                   <<L_DiffRename, L_Hunk, L_Added>>}}

Sha == <<"s">>

RevListOutcomes ==
    {[ok |-> FALSE, stdout |-> <<>>]}
    \cup {[ok |-> TRUE, stdout |-> l] : l \in SeqsUpTo({Sha}, MaxCommits)}

ShowOutcomes ==
    {[ok |-> FALSE, stdout |-> <<>>],
     [ok |-> TRUE, stdout |-> <<"m">>],
     [ok |-> TRUE, stdout |-> <<"m", "RLO">>]}

\* a rev-list outcome with a git show outcome for each commit it lists
RangeOutcomes ==
    {[revlist |-> rl, shows |-> sh] :
        rl \in RevListOutcomes, sh \in SeqsUpTo(ShowOutcomes, MaxCommits)}

LocalOutcomes == {o \in RangeOutcomes : Len(o.shows) = Len(o.revlist.stdout)}

UrlGood == <<"h", "t", "t", "p", "s", ":", "/", "/", "h", "/", "c">>
UrlNoScheme == <<"x">>

PrPayloads ==
    {[kind |-> "pr", title |-> None, body |-> None,
      base_sha |-> Some(<<"b">>), head_sha |-> Some(<<"h">>),
      commits_url |-> Some(UrlGood)],
     [kind |-> "pr", title |-> Some(<<"F", "i", "x", "RLO", "b", "u", "g">>),
      body |-> Some(<<>>), base_sha |-> None, head_sha |-> Some(<<"h">>),
      commits_url |-> None],
     [kind |-> "pr", title |-> None, body |-> Some(<<"x", "LF", "y", "ZWSP">>),
      base_sha |-> Some(<<"b">>), head_sha |-> Some(<<"h">>),
      commits_url |-> Some(UrlNoScheme)]}

OtherPayloads ==
    {[kind |-> "push",
      commits |-> <<[id |-> Some(Sha), message |-> Some(<<"m", "ZWSP">>)],
                    [id |-> Some(Sha), message |-> Some(<<"m", "ZWSP">>)],
                    [id |-> None, message |-> Some(<<"RLO">>)]>>],
     [kind |-> "other"]}

RemotePages ==
    {<<[kind |-> "error"]>>,
     <<[kind |-> "list", items |-> <<>>, next |-> FALSE]>>,
     <<[kind |-> "list", next |-> TRUE,
        items |-> <<[sha |-> Some(Sha), message |-> Some(<<"m", "RLO">>)],
                    [sha |-> Some(Sha), message |-> None]>>],
       [kind |-> "notlist"]>>}

NoLocal == [revlist |-> [ok |-> FALSE, stdout |-> <<>>], shows |-> <<>>]

EventEnvs ==
    {[file |-> f, payload |-> [kind |-> "other"], revlist |-> NoLocal.revlist,
      shows |-> NoLocal.shows, token |-> None, pages |-> <<>>] :
        f \in {"unreadable", "unparsable"}}
    \cup {[file |-> "json", payload |-> pl, revlist |-> NoLocal.revlist,
           shows |-> NoLocal.shows, token |-> None, pages |-> <<>>] :
            pl \in OtherPayloads}
    \cup {[file |-> "json", payload |-> pl, revlist |-> lo.revlist, shows |-> lo.shows,
           token |-> tk, pages |-> pg] :
            pl \in PrPayloads, lo \in LocalOutcomes,
            tk \in {None, Some(<<"t">>)}, pg \in RemotePages}

(***************************************************************************)
(* main.  pc is the place in the body of the try statement: "scope" (the   *)
(* if/elif chain on the mode), "unstaged" and "untracked" (the later calls *)
(* of a branch), "range" (if args.commit_range), "event" (if               *)
(* args.github_event), "report" (after the try) and "done".                *)
(***************************************************************************)
MainInit ==
    /\ args \in ArgSets
    /\ pc = "scope"
    /\ findings = <<>>
    /\ exit_code = None
    /\ out = ""
    /\ report = <<>>
    /\ errout = <<>>
    /\ ran = <<>>
    /\ queries = <<>>
    /\ diff_log = <<>>
    /\ ev = None
    /\ ParserIdle
    /\ ScanIdle
    /\ FetchIdle

\* an exception leaves the try statement: RuntimeError is caught (ERROR and
\* its message on stderr, return 2); any other propagates and ends the
\* interpreter with a traceback and status 1
Raise(exc, msg) ==
    /\ pc' = "done"
    /\ exit_code' = IF exc = "RuntimeError" THEN Some(2) ELSE Some(1)
    /\ errout' = IF exc = "RuntimeError" THEN <<"ERROR", msg>> ELSE <<"Traceback", exc>>
    /\ UNCHANGED <<findings, out, report>>

\* findings.extend(found), and on to the next statement
Extend(found, next) ==
    /\ findings' = findings \o found
    /\ pc' = next
    /\ UNCHANGED <<exit_code, out, report, errout>>

Called(adapter, found) == ran' = Append(ran, [adapter |-> adapter, findings |-> found])

\* for p in _collect_tracked_files(repo_root) / _collect_untracked(repo_root):
\*     findings.extend(_scan_file(repo_root, p))
FileScan(adapter, query, next) ==
    \E ls \in LsOutcomes :
        LET files == IF adapter = "tracked"
                     THEN _collect_tracked_files(ls.ok, ls.listing)
                     ELSE _collect_untracked(ls.ok, ls.listing)
            found == ScanFiles(files)
        IN  /\ Extend(found, next)
            /\ Called(adapter, found)
            /\ queries' = Append(queries, [q |-> query, ok |-> ls.ok])
            /\ UNCHANGED <<args, diff_log, ev, parserVars, scanVars, fetchVars>>

\* findings.extend(_scan_git_diff(repo_root, [...]))
DiffScan(adapter, next) ==
    \E d \in DiffOutcomes :
        LET r == _scan_git_diff(d.ok, d.stdout)
        IN  /\ IF r.raised # "" THEN Raise(r.raised, "git diff failed")
                                    ELSE Extend(r.findings, next)
            /\ Called(adapter, r.findings)
            /\ queries' = Append(queries, [q |-> "diff", ok |-> d.ok])
            /\ diff_log' = IF d.ok
                           THEN Append(diff_log, [stdout |-> d.stdout, scans |-> r.scans,
                                                  raised |-> r.raised])
                           ELSE diff_log
            /\ UNCHANGED <<args, ev, parserVars, scanVars, fetchVars>>

\* if args.all:
ScanAllTracked ==
    /\ pc = "scope"
    /\ args.mode = "all"
    /\ FileScan("tracked", "ls-files", "range")

\* elif args.base:
ScanAgainstBase ==
    /\ pc = "scope"
    /\ args.mode = "base"
    /\ DiffScan("diff-base", "range")

\* elif args.staged: / else:  -- both start with the --cached diff
ScanStaged ==
    /\ pc = "scope"
    /\ args.mode \in {"staged", "default"}
    /\ DiffScan("diff-staged", IF args.mode = "staged" THEN "untracked" ELSE "unstaged")

\* else: the second _scan_git_diff, with no arguments
ScanUnstaged ==
    /\ pc = "unstaged"
    /\ DiffScan("diff-unstaged", "untracked")

\* the _collect_untracked loop that ends the staged and the default branch
ScanUntracked ==
    /\ pc = "untracked"
    /\ FileScan("untracked", "ls-files-others", "range")

\* if args.commit_range:
ScanCommitRange ==
    /\ pc = "range"
    /\ args.commit_range
    /\ \E o \in LocalOutcomes :
        LET shas == _git_rev_list(o.revlist)
            found == IF shas = None THEN <<>> ELSE ScanCommitMessages(shas[1], o.shows)
        IN  /\ IF shas = None THEN Raise("RuntimeError", "git rev-list failed for range")
                              ELSE Extend(found, "event")
            /\ Called("commit-range", found)
            /\ queries' = queries \o <<[q |-> "rev-list", ok |-> o.revlist.ok]>>
                          \o [k \in 1..Len(o.shows) |-> [q |-> "show", ok |-> o.shows[k].ok]]
    /\ UNCHANGED <<args, diff_log, ev, parserVars, scanVars, fetchVars>>

NoCommitRange ==
    /\ pc = "range"
    /\ ~args.commit_range
    /\ pc' = "event"
    /\ UNCHANGED <<args, findings, exit_code, out, report, errout, ran, queries,
                   diff_log, ev, parserVars, scanVars, fetchVars>>

\* if args.github_event:
ScanEvent ==
    /\ pc = "event"
    /\ args.github_event
    /\ IF args.event_path = None
       THEN /\ Raise("RuntimeError", "--github-event requires a path")
            /\ UNCHANGED <<ran, ev>>
       ELSE \E e \in EventEnvs :
                LET r == _scan_github_event(e)
                IN  /\ IF r.raised # "" THEN Raise(r.raised, "")
                                        ELSE Extend(r.findings, "report")
                    /\ Called("event", r.findings)
                    /\ ev' = Some([env |-> e, raised |-> r.raised, findings |-> r.findings])
    /\ UNCHANGED <<args, queries, diff_log, parserVars, scanVars, fetchVars>>

NoEvent ==
    /\ pc = "event"
    /\ ~args.github_event
    /\ pc' = "report"
    /\ UNCHANGED <<args, findings, exit_code, out, report, errout, ran, queries,
                   diff_log, ev, parserVars, scanVars, fetchVars>>

\* if not findings: print("OK: ..."); return 0
\* print("FAIL: ..."); one line for each f in findings; return 1
Report ==
    /\ pc = "report"
    /\ pc' = "done"
    /\ out' = IF findings = <<>> THEN "OK" ELSE "FAIL"
    /\ report' = findings
    /\ exit_code' = IF findings = <<>> THEN Some(0) ELSE Some(1)
    /\ UNCHANGED <<args, findings, errout, ran, queries, diff_log, ev,
                   parserVars, scanVars, fetchVars>>

Next ==
    \/ ScanAllTracked
    \/ ScanAgainstBase
    \/ ScanStaged
    \/ ScanUnstaged
    \/ ScanUntracked
    \/ ScanCommitRange
    \/ NoCommitRange
    \/ ScanEvent
    \/ NoEvent
    \/ Report

Spec == MainInit /\ [][Next]_vars

(***************************************************************************)
(* Readings of the history.                                                *)
(***************************************************************************)
Failed(kinds) == \E k \in 1..Len(queries) : queries[k].q \in kinds /\ ~queries[k].ok

MissingEventPath == errout = <<"ERROR", "--github-event requires a path">>

\* an operational error: a failed diff query, an invalid commit range, or
\* event mode selected without a payload path
OperationalError == Failed({"diff", "rev-list"}) \/ MissingEventPath

AdaptersRun == [k \in 1..Len(ran) |-> ran[k].adapter]

RECURSIVE Concat(_)
Concat(ss) == IF ss = <<>> THEN <<>> ELSE ss[1] \o Concat(Drop(ss, 1))

IsPrefix(s, t) == Len(s) <= Len(t) /\ SubSeq(t, 1, Len(s)) = s

Count(s, x) == Cardinality({k \in 1..Len(s) : s[k] = x})

(***************************************************************************)
(* C3: a run ends in exactly one of three states: exit 0 with 'OK' iff no  *)
(* operational error occurred and there is no finding; exit 1 with 'FAIL'  *)
(* and one report line per finding, in order, iff no operational error     *)
(* occurred and there is a finding; exit 2 with 'ERROR' and no finding     *)
(* reported iff an operational error occurred.                             *)
(***************************************************************************)
ExitOk == exit_code = Some(0) /\ out = "OK" /\ report = <<>> /\ errout = <<>>
ExitFail == exit_code = Some(1) /\ out = "FAIL" /\ report = findings /\ errout = <<>>
ExitError ==
    exit_code = Some(2) /\ out = "" /\ report = <<>> /\ errout # <<>> /\ errout[1] = "ERROR"

C3_ThreeTerminalStates ==
    pc = "done" =>
        /\ ExitOk <=> (~OperationalError /\ findings = <<>>)
        /\ ExitFail <=> (~OperationalError /\ findings # <<>>)
        /\ ExitError <=> OperationalError

(***************************************************************************)
(* C4 as claimed: whenever a query of an adapter the mode runs returns a   *)
(* non-zero status (diff, tracked or untracked listing, commit-range       *)
(* resolution, message fetch for a commit of the range), the run aborts    *)
(* there with exit code 2 and never continues.                             *)
(***************************************************************************)
C4_EveryFailedQueryAborts ==
    Failed({"diff", "ls-files", "ls-files-others", "rev-list", "show"})
        => (pc = "done" /\ exit_code = Some(2))

(***************************************************************************)
(* C4 as amended: a non-zero status of a diff query or of the commit-range *)
(* resolution ends the run at once with 'ERROR' and exit code 2; a         *)
(* non-zero status of a file listing or of a message fetch does not: exit  *)
(* code 2 arises only from a failed diff, a failed commit-range resolution *)
(* or a missing event path, and every other run goes on to the report.     *)
(***************************************************************************)
C4_OnlyDiffAndRangeFailuresAbort ==
    /\ Failed({"diff", "rev-list"}) => (pc = "done" /\ ExitError)
    /\ exit_code = Some(2) => OperationalError
    /\ (pc = "done" /\ ~OperationalError /\ Failed({"ls-files", "ls-files-others", "show"})
            /\ errout = <<>>)
        => (ExitOk \/ ExitFail)

\* the untracked listing failed and the run went on; the range resolution
\* failed next and the run ended with exit code 2
C4_Witness ==
    /\ pc = "done"
    /\ Failed({"ls-files-others"})
    /\ Failed({"rev-list"})
    /\ ExitError

(***************************************************************************)
(* C5: the adapters that run, in order, are those of the mode alone ('all':*)
(* tracked files; 'staged': the staged diff only; 'base': the diff against *)
(* the base; default: staged diff, unstaged diff, untracked files), then   *)
(* the commit-range scan and the event scan iff selected; the findings are *)
(* the adapters' findings concatenated in that order.                      *)
(***************************************************************************)
AdaptersClaimed(a) ==
    (CASE a.mode = "all" -> <<"tracked">>
       [] a.mode = "staged" -> <<"diff-staged">>
       [] a.mode = "base" -> <<"diff-base">>
       [] a.mode = "default" -> <<"diff-staged", "diff-unstaged", "untracked">>)
    \o (IF a.commit_range THEN <<"commit-range">> ELSE <<>>)
    \o (IF a.github_event THEN <<"event">> ELSE <<>>)

C5_AdaptersByModeAlone ==
    pc # "idle" =>
        /\ IsPrefix(AdaptersRun, AdaptersClaimed(args))
        /\ pc = "report" => AdaptersRun = AdaptersClaimed(args)
        /\ findings = Concat([k \in 1..Len(ran) |-> ran[k].findings])

(***************************************************************************)
(* C6: for every diff output _scan_git_diff processes, each distinct       *)
(* new-side path of a 'diff --git' header is path-scanned exactly once,    *)
(* whether or not an added line is emitted for it.                         *)
(***************************************************************************)
HeaderPaths(stdout) ==
    {AfterLastSpace(stdout[k]) : k \in {j \in 1..Len(stdout) : IsDiffGitLine(stdout[j])}}

C6_EachHeaderPathScannedOnce ==
    \A k \in 1..Len(diff_log) :
        diff_log[k].raised = ""
            => \A path \in HeaderPaths(diff_log[k].stdout) :
                   Count(diff_log[k].scans, path) = 1

(***************************************************************************)
(* C7: on a pull-request payload the event adapter raises nothing, and it  *)
(* emits exactly one 'pr[commits]' WARN finding when no commit text was    *)
(* obtained (no local commits resolved or every local fetch failed, and    *)
(* the remote unavailable or without commits) and none when commit text    *)
(* was obtained, locally or from the remote.                               *)
(***************************************************************************)
EventSeen == ev # None

PrSeen == EventSeen /\ ev[1].env.file = "json" /\ ev[1].env.payload.kind = "pr"

\* local history resolved the range to at least one commit
LocalResolved(e) ==
    /\ e.payload.base_sha # None
    /\ e.payload.head_sha # None
    /\ e.revlist.ok
    /\ e.revlist.stdout # <<>>

LocalText(e) == LocalResolved(e) /\ \E k \in 1..Len(e.shows) : e.shows[k].ok

RemoteAvailable(e) ==
    /\ e.token # None
    /\ e.payload.commits_url # None
    /\ e.payload.commits_url[1] # <<>>

RemoteText(e) == RemoteAvailable(e) /\ FetchPages(e.pages, 1, <<>>) # <<>>

WarnCount(found) ==
    Cardinality({k \in 1..Len(found) : found[k] = Synthetic(PrCommitsLabel, "WARN")})

C7_WarnIffNoCommitText ==
    PrSeen =>
        LET e == ev[1].env IN
        /\ ev[1].raised = ""
        /\ (~LocalText(e) /\ ~RemoteText(e)) => WarnCount(ev[1].findings) = 1
        /\ (LocalText(e) \/ (~LocalResolved(e) /\ RemoteText(e)))
               => WarnCount(ev[1].findings) = 0

MaxPairs == 2

\* query.setdefault("per_page", ["100"]) and the URL put together again
WithPerPage(url) ==
    IF url.per_page = None THEN [url EXCEPT !.per_page = Some(100)] ELSE url

RECURSIVE LinkNextFrom(_, _)
LinkNextFrom(parts, k) ==
    IF k > Len(parts) THEN None
    ELSE IF parts[k].form = "next" THEN Some(parts[k].target)
    ELSE LinkNextFrom(parts, k + 1)

_github_link_next(link_header) ==
    IF link_header = None THEN None ELSE LinkNextFrom(link_header[1], 1)

\* (data, next_url), or the exception that leaves the function
_github_api_get_json(url, answer) ==
    IF ~HasUrlScheme(url.loc)
    THEN [raised |-> "ValueError", data |-> None, next_url |-> None]
    ELSE IF answer.kind = "dropped"
    THEN [raised |-> "HTTPException", data |-> None, next_url |-> None]
    ELSE IF answer.kind = "error"
    THEN [raised |-> "", data |-> None, next_url |-> None]
    ELSE [raised |-> "",
          data |-> Some([is_list |-> answer.kind = "list",
                         items |-> IF answer.kind = "list" THEN answer.items ELSE <<>>]),
          next_url |-> _github_link_next(answer.link)]

StartUrls ==
    {[loc |-> UrlGood, per_page |-> None],
     [loc |-> UrlGood, per_page |-> Some(30)],
     [loc |-> UrlNoScheme, per_page |-> None]}

LinkTargets ==
    {[loc |-> UrlGood, per_page |-> Some(100)],
     [loc |-> UrlGood \o <<"2">>, per_page |-> Some(100)],
     [loc |-> UrlNoScheme, per_page |-> None]}

LinkHeaders ==
    {None}
    \cup {Some(<<[target |-> t, form |-> "next"]>>) : t \in LinkTargets}
    \cup {Some(<<[target |-> [loc |-> UrlGood, per_page |-> Some(100)], form |-> "other"]>>),
          Some(<<[target |-> [loc |-> UrlGood, per_page |-> Some(100)], form |-> "next-extra"],
                 [target |-> [loc |-> UrlGood \o <<"2">>, per_page |-> Some(100)],
                  form |-> "next"]>>)}

ItemLists ==
    {<<>>,
     <<[sha |-> Some(Sha), message |-> Some(<<"m">>)]>>,
     <<[sha |-> None, message |-> Some(<<"m">>)],
       [sha |-> Some(Sha), message |-> Some(<<"m", "ZWSP">>)]>>}

Answers ==
    {[kind |-> "error"], [kind |-> "dropped"]}
    \cup {[kind |-> "notlist", link |-> h] : h \in LinkHeaders}
    \cup {[kind |-> "list", items |-> it, link |-> h] : it \in ItemLists, h \in LinkHeaders}

\* commits = []; next_url = url (the commits URL with per_page set)
FetchInit ==
    /\ \E u \in StartUrls : next_url = Some(WithPerPage(u))
    /\ pr_commits = <<>>
    /\ requested = {}
    /\ fpc = "loop"
    /\ ParserIdle
    /\ ScanIdle
    /\ MainIdle

\* one iteration of 'while next_url:'; the remote's answers are kept to
\* those that leave at most MaxPairs pairs in commits
FetchPage ==
    /\ fpc = "loop"
    /\ next_url # None
    /\ \E a \in Answers :
        LET r == _github_api_get_json(next_url[1], a)
            pairs == IF r.data # None /\ r.data[1].is_list
                     THEN PagePairs(r.data[1].items) ELSE <<>>
        IN  /\ Len(pr_commits) + Len(pairs) <= MaxPairs
            /\ requested' = IF r.raised = "ValueError" THEN requested
                            ELSE requested \cup {next_url[1]}
            /\ IF r.raised # ""
               THEN /\ fpc' = r.raised
                    /\ UNCHANGED <<next_url, pr_commits>>
               ELSE /\ next_url' = r.next_url
                    /\ pr_commits' = pr_commits \o pairs
                    /\ fpc' = IF r.data = None \/ ~r.data[1].is_list
                              THEN "returned" ELSE "loop"
    /\ UNCHANGED <<parserVars, scanVars, mainVars>>

\* next_url is None: the loop ends, return commits
FetchReturn ==
    /\ fpc = "loop"
    /\ next_url = None
    /\ fpc' = "returned"
    /\ UNCHANGED <<next_url, pr_commits, requested, parserVars, scanVars, mainVars>>

FetchNext ==
    \/ FetchPage
    \/ FetchReturn

\* the code is single-threaded and every request returns or times out
\* (timeout=20), so an iteration that can be taken is taken
SpecFetch == FetchInit /\ [][FetchNext]_vars /\ WF_vars(FetchNext)

(***************************************************************************)
(* C11: the paginated retrieval terminates for every behaviour of the      *)
(* remote: sooner or later it has left its loop, also when the remote      *)
(* keeps answering with a next link.                                       *)
(***************************************************************************)
C11_RetrievalTerminates == <>(fpc # "loop")

====
